---- MODULE Spec2Model ----
(***************************************************************************)
(* Model of parity_check.py: the harness that runs rumdl and markdownlint  *)
(* over every file of parity_corpus/, normalizes both JSON warning lists,  *)
(* compares them on the key (file, line, rule) and exits 0 or 1.           *)
(***************************************************************************)
EXTENDS Integers, Sequences, FiniteSets, TLC

VARIABLES
    cwd,                       \* Path.cwd() of the process
    found,                     \* the files PARITY_CORPUS.glob("*.md") yields
    pc,                        \* position of main()
    md_files,                  \* main: md_files
    idx,                       \* index in md_files of the loop variable md_file
    all_passed,                \* main: all_passed
    total_common,              \* main: total_common
    total_rumdl_only,          \* main: total_rumdl_only
    total_markdownlint_only,   \* main: total_markdownlint_only
    rumdl_raw,                 \* main: rumdl_raw
    markdownlint_raw,          \* main: markdownlint_raw
    rumdl_norm,                \* main: rumdl_norm
    markdownlint_norm,         \* main: markdownlint_norm
    only_in_rumdl,             \* main: only_in_rumdl
    only_in_markdownlint,      \* main: only_in_markdownlint
    common,                    \* main: common
    out,                       \* lines printed since the current file's header
    exit_status,               \* the process exit status, None while running
    exc,                       \* the uncaught exception that ended main(), or None
    rumdl_outcome,             \* history: how run_rumdl ended for the current file
    markdownlint_outcome,      \* history: how run_markdownlint ended for it
    md_proc,                   \* history: the CompletedProcess run_markdownlint saw
    calls,                     \* history: number of subprocess.run calls so far
    reported,                  \* history: number of raw warnings the tools returned so far
    compared,                  \* history: number of files whose key sets were built
    sum_common,                \* history: sum of |common| over the finished files
    sum_only_a,                \* history: sum of |only_in_rumdl| over them
    sum_only_b,                \* history: sum of |only_in_markdownlint| over them
    mismatched,                \* history: some finished file had a non-empty difference
    scenario                   \* history: the raw tool outputs were those of Scenario 1

vars == <<cwd, found, pc, md_files, idx, all_passed, total_common,
          total_rumdl_only, total_markdownlint_only, rumdl_raw,
          markdownlint_raw, rumdl_norm, markdownlint_norm, only_in_rumdl,
          only_in_markdownlint, common, out, exit_status, exc,
          rumdl_outcome, markdownlint_outcome, md_proc, calls, reported,
          compared, sum_common, sum_only_a, sum_only_b, mismatched, scenario>>

-----------------------------------------------------------------------------
(* Bounds of the model. *)

\* most files parity_corpus/ holds
MaxFiles == 2

\* most warnings the two tools report in one run, all files taken together
MaxWarnings == 4

\* most distinct keys of one file when its report alone is examined
MaxKeys == 4

-----------------------------------------------------------------------------
(* Python values.  A value carries its type, so that None, an int and a    *)
(* str stay distinct and a comparison between them can be seen to raise.   *)

None == [t |-> "None"]

PyInt(n) == [t |-> "int", v |-> n]

PyStr(s) == [t |-> "str", v |-> s]

\* dict.get(k, d): d only when the key is absent
Get(w, k, d) == IF k \in DOMAIN w THEN w[k] ELSE d

\* the result of a call that may raise
Ok(v) == [exc |-> "", v |-> v]

Raise(e) == [exc |-> e]

SeqToSet(s) == {s[i] : i \in 1..Len(s)}

RECURSIVE SelectSeqBy(_, _)
\* [w for w in s if w \in keep]
SelectSeqBy(s, keep) ==
    IF s = <<>> THEN <<>>
    ELSE IF Head(s) \in keep THEN <<Head(s)>> \o SelectSeqBy(Tail(s), keep)
    ELSE SelectSeqBy(Tail(s), keep)

\* the lists of length at most n over the set S
ListsUpTo(S, n) == UNION {[1..k -> S] : k \in 0..n}

-----------------------------------------------------------------------------
(* Paths.  A path string is a sequence of tokens, "/" being the separator; *)
(* a pathlib.Path is its anchor (abs) and its parts.                       *)

Sep == "/"

RECURSIVE PartsOf(_)
\* pathlib's parsing: separators and "." components are dropped
PartsOf(tokens) ==
    IF tokens = <<>> THEN <<>>
    ELSE IF Head(tokens) \in {Sep, "."} THEN PartsOf(Tail(tokens))
    ELSE <<Head(tokens)>> \o PartsOf(Tail(tokens))

\* Path(s)
PathOf(tokens) ==
    [abs |-> tokens # <<>> /\ Head(tokens) = Sep, parts |-> PartsOf(tokens)]

RECURSIVE JoinParts(_)
JoinParts(parts) ==
    IF parts = <<>> THEN <<>>
    ELSE IF Len(parts) = 1 THEN parts
    ELSE <<Head(parts), Sep>> \o JoinParts(Tail(parts))

\* str(path)
StrOf(p) ==
    IF p.abs THEN <<Sep>> \o JoinParts(p.parts)
    ELSE IF p.parts = <<>> THEN <<".">>
    ELSE JoinParts(p.parts)

\* s.startswith('/')
StartsWithSep(tokens) == tokens # <<>> /\ Head(tokens) = Sep

IsPrefix(a, b) == Len(a) <= Len(b) /\ SubSeq(b, 1, Len(a)) = a

\* path.relative_to(base): ValueError unless base is an ancestor of path
RelativeTo(p, base) ==
    IF p.abs = base.abs /\ IsPrefix(base.parts, p.parts)
    THEN Ok([abs |-> FALSE,
             parts |-> SubSeq(p.parts, Len(base.parts) + 1, Len(p.parts))])
    ELSE Raise("ValueError")

\* path.absolute()
Absolute(p, base) ==
    IF p.abs THEN p ELSE [abs |-> TRUE, parts |-> base.parts \o p.parts]

\* the directory of parity_check.py (__file__ of the main script is absolute)
ScriptDir == [abs |-> TRUE, parts |-> <<"repo">>]

\* PARITY_CORPUS
PARITY_CORPUS == [abs |-> TRUE, parts |-> ScriptDir.parts \o <<"parity_corpus">>]

\* the name of the i-th markdown file
FileName(i) == "f" \o ToString(i) \o ".md"

\* PARITY_CORPUS / name
CorpusFile(i) == [abs |-> TRUE, parts |-> PARITY_CORPUS.parts \o <<FileName(i)>>]

\* the directories the harness may be started from: the repository root,
\* or a directory outside the repository
CwdChoices ==
    { [abs |-> TRUE, parts |-> <<"repo">>],
      [abs |-> TRUE, parts |-> <<"home">>] }

RECURSIVE SortedFiles(_)
\* sorted(PARITY_CORPUS.glob("*.md")): ascending by path (file names f1.md, f2.md, ...)
SortedFiles(S) ==
    IF S = {} THEN <<>>
    ELSE LET m == CHOOSE x \in S : \A y \in S : x <= y
         IN  <<CorpusFile(m)>> \o SortedFiles(S \ {m})

-----------------------------------------------------------------------------
(* Tool output.  A captured stream is blank (empty or white space only),  *)
(* text that json.loads rejects, or the text of a JSON array.             *)

Blank == [kind |-> "blank"]

Text == [kind |-> "text"]

Json(list) == [kind |-> "json", value |-> list]

\* exit statuses a tool may end with: 0 clean, 1 issues found, 2 error
ReturnCodes == {0, 1, 2}

\* the raw rumdl object of the specification's Scenario 1: "rule", no "rule_name"
Scenario1Rumdl ==
    [line |-> PyInt(5), rule |-> PyStr("MD013"), message |-> PyStr("line too long")]

\* the raw markdownlint object of the specification's Scenario 1: no "fileName"
Scenario1Markdownlint ==
    [lineNumber |-> PyInt(5), ruleNames |-> <<PyStr("MD013")>>,
     ruleDescription |-> PyStr("line too long")]

\* the raw warning objects rumdl may print
RumdlPool ==
    { [line |-> PyInt(5), rule_name |-> PyStr("MD013"),
       message |-> PyStr("line too long")],
      [line |-> PyInt(10), rule_name |-> PyStr("MD001"), column |-> PyInt(3),
       message |-> PyStr("Heading levels")],
      \* no "line"
      [rule_name |-> PyStr("MD001"), message |-> PyStr("Heading levels")],
      Scenario1Rumdl }

\* the raw warning objects markdownlint may print while checking file f
MarkdownlintPool(f) ==
    { [fileName |-> PyStr(StrOf(f)), lineNumber |-> PyInt(5),
       ruleNames |-> <<PyStr("MD013"), PyStr("line-length")>>,
       ruleDescription |-> PyStr("Line length"),
       errorRange |-> <<PyInt(81), PyInt(7)>>],
      \* the path reported relative to the script's directory
      [fileName |-> PyStr(StrOf(RelativeTo(f, ScriptDir).v)),
       lineNumber |-> PyInt(10), ruleNames |-> <<PyStr("MD001")>>,
       ruleDescription |-> PyStr("Heading levels")],
      \* an empty list of rule names
      [fileName |-> PyStr(StrOf(f)), lineNumber |-> PyInt(5),
       ruleNames |-> <<>>, ruleDescription |-> PyStr("Line length")],
      \* a warning for another file
      [fileName |-> PyStr(StrOf(CorpusFile(0))), lineNumber |-> PyInt(5),
       ruleNames |-> <<PyStr("MD013")>>,
       ruleDescription |-> PyStr("Line length")],
      Scenario1Markdownlint }

\* what subprocess.run may return for rumdl, (returncode, stdout), with an
\* array of at most n warnings
RumdlResults(n) ==
    [returncode : ReturnCodes,
     stdout : {Blank, Text} \cup {Json(l) : l \in ListsUpTo(RumdlPool, n)}]

\* the pairs (stderr, stdout) markdownlint may write with the array l
ChannelPairs(l) ==
    { [stderr |-> Json(l), stdout |-> Blank],
      [stderr |-> Json(l), stdout |-> Text],
      [stderr |-> Blank, stdout |-> Json(l)],
      [stderr |-> Text, stdout |-> Json(l)],
      [stderr |-> Json(l), stdout |-> Json(<<>>)],
      [stderr |-> Json(<<>>), stdout |-> Json(l)],
      [stderr |-> Blank, stdout |-> Blank],
      [stderr |-> Text, stdout |-> Blank],
      [stderr |-> Blank, stdout |-> Text] }

\* what subprocess.run may return for markdownlint on file f, with an array
\* of at most n warnings
MarkdownlintResults(f, n) ==
    { [returncode |-> rc, stderr |-> ch.stderr, stdout |-> ch.stdout] :
        rc \in ReturnCodes,
        ch \in UNION {ChannelPairs(l) : l \in ListsUpTo(MarkdownlintPool(f), n)} }

\* the results main() is run against: one per way run_markdownlint can end
\* (the array on stderr, the array on stdout, a bad exit status, text that
\* is not JSON, nothing at all)
MarkdownlintRuns(f, n) ==
    { [returncode |-> 1, stderr |-> Json(l), stdout |-> Blank] :
        l \in ListsUpTo(MarkdownlintPool(f), n) }
    \cup { [returncode |-> 0, stderr |-> Blank, stdout |-> Json(l)] :
             l \in ListsUpTo(MarkdownlintPool(f), n) }
    \cup { [returncode |-> 2, stderr |-> Text, stdout |-> Blank],
           [returncode |-> 1, stderr |-> Text, stdout |-> Blank],
           [returncode |-> 0, stderr |-> Blank, stdout |-> Blank] }

\* run_rumdl, given the CompletedProcess: the list returned and how it ended
run_rumdl(result) ==
    IF result.returncode # 0 /\ result.stdout.kind = "blank"
    THEN [ret |-> <<>>, outcome |-> "error"]
    ELSE IF result.stdout.kind = "json"
    THEN [ret |-> result.stdout.value, outcome |-> "ok"]
    ELSE [ret |-> <<>>, outcome |-> "parse_error"]

\* mutant of MarkdownlintOutput: stdout is never read
MarkdownlintOutput_StderrOnly(result) == result.stderr

\* line 34: stderr if it is not blank, else stdout
MarkdownlintOutput(result) ==
    IF result.stderr.kind # "blank" THEN result.stderr ELSE result.stdout

\* run_markdownlint, given the CompletedProcess
run_markdownlint(result) ==
    IF result.returncode \notin {0, 1}
    THEN [ret |-> <<>>, outcome |-> "error"]
    ELSE LET output == MarkdownlintOutput(result)
         IN  IF output.kind = "blank" THEN [ret |-> <<>>, outcome |-> "empty"]
             ELSE IF output.kind = "json"
             THEN [ret |-> output.value, outcome |-> "ok"]
             ELSE [ret |-> <<>>, outcome |-> "parse_error"]

-----------------------------------------------------------------------------
(* The normalizers. *)

\* normalize_rumdl(warning, file): raises when file is not under the cwd
normalize_rumdl(warning, file, wd) ==
    LET rel == RelativeTo(file, wd)
    IN  IF rel.exc # "" THEN rel
        ELSE Ok([file    |-> PyStr(StrOf(rel.v)),
                 line    |-> Get(warning, "line", None),
                 column  |-> Get(warning, "column", PyInt(1)),
                 rule    |-> Get(warning, "rule_name", None),
                 message |-> Get(warning, "message", None),
                 fix     |-> Get(warning, "fix", None)])

\* lines 57-64: an absolute fileName under the cwd is made relative to it
MarkdownlintFile(warning, wd) ==
    LET file_path == Get(warning, "fileName", None)
    IN  IF file_path # None /\ StartsWithSep(file_path.v)
        THEN LET rel == RelativeTo(PathOf(file_path.v), wd)
             IN  IF rel.exc = "" THEN PyStr(StrOf(rel.v)) ELSE file_path
        ELSE file_path

\* line 69: the first element of a non-empty errorRange, else 1
MarkdownlintColumn(warning) ==
    LET range == Get(warning, "errorRange", None)
    IN  IF range # None /\ range # <<>> THEN range[1] ELSE PyInt(1)

\* line 70: warning.get("ruleNames", [None])[0]
MarkdownlintRule(warning) ==
    LET names == Get(warning, "ruleNames", <<None>>)
    IN  IF names = <<>> THEN Raise("IndexError") ELSE Ok(names[1])

\* normalize_markdownlint(warning)
normalize_markdownlint(warning, wd) ==
    LET rule == MarkdownlintRule(warning)
    IN  IF rule.exc # "" THEN rule
        ELSE Ok([file    |-> MarkdownlintFile(warning, wd),
                 line    |-> Get(warning, "lineNumber", None),
                 column  |-> MarkdownlintColumn(warning),
                 rule    |-> rule.v,
                 message |-> Get(warning, "ruleDescription", None),
                 fix     |-> Get(warning, "fixInfo", None)])

-----------------------------------------------------------------------------
(* Sorting and the comparison key. *)

\* mutant of warning_key: the message is part of the key
warning_key_with_message(w) ==
    <<Get(w, "file", None), Get(w, "line", None), Get(w, "rule", None),
      Get(w, "message", None)>>

\* key(w) of lines 148-152
key(w) == <<Get(w, "line", PyInt(0)), Get(w, "rule", PyStr(""))>>

\* warning_key(w) of lines 157-158
warning_key(w) == <<Get(w, "file", None), Get(w, "line", None), Get(w, "rule", None)>>

\* the rule strings of the model in str order
StrOrder == <<"", "MD001", "MD013", "line-length">>

StrRank(s) == CHOOSE i \in 1..Len(StrOrder) : StrOrder[i] = s

\* a < b for two values of one type; Python raises TypeError for int against
\* None, str against None and None against None
Orderable(a, b) == a.t = b.t /\ a.t # "None"

ValueLess(a, b) == IF a.t = "int" THEN a.v < b.v ELSE StrRank(a.v) < StrRank(b.v)

\* tuple comparison: the first differing position decides, with <
KeyOrderable(k1, k2) ==
    IF k1[1] # k2[1] THEN Orderable(k1[1], k2[1])
    ELSE IF k1[2] # k2[2] THEN Orderable(k1[2], k2[2])
    ELSE TRUE

KeyLess(k1, k2) ==
    IF k1[1] # k2[1] THEN ValueLess(k1[1], k2[1])
    ELSE IF k1[2] # k2[2] THEN ValueLess(k1[2], k2[2])
    ELSE FALSE

RECURSIVE InsertSorted(_, _)
\* w goes after every element that is not greater (the sort is stable)
InsertSorted(w, s) ==
    IF s = <<>> THEN <<w>>
    ELSE IF KeyLess(key(w), key(Head(s))) THEN <<w>> \o s
    ELSE <<Head(s)>> \o InsertSorted(w, Tail(s))

RECURSIVE StableSort(_)
StableSort(s) ==
    IF s = <<>> THEN <<>>
    ELSE InsertSorted(s[Len(s)], StableSort(SubSeq(s, 1, Len(s) - 1)))

\* sorted(list, key=key).  A comparison sort has to compare, directly, two
\* elements of neighbouring key values, so it raises TypeError exactly when
\* two of the keys cannot be ordered.
sorted(list) ==
    IF \E i, j \in 1..Len(list) : ~KeyOrderable(key(list[i]), key(list[j]))
    THEN Raise("TypeError")
    ELSE Ok(StableSort(list))

\* set(warning_key(w) for w in list)
KeySet(list) == {warning_key(list[i]) : i \in 1..Len(list)}

\* mutant of OnlyInRumdl: markdownlint's keys are not taken away
OnlyInRumdl_Whole(r_set, m_set) == r_set

\* lines 163-165
OnlyInRumdl(r_set, m_set) == r_set \ m_set

OnlyInMarkdownlint(r_set, m_set) == m_set \ r_set

Common(r_set, m_set) == r_set \cap m_set

RECURSIVE MapRumdl(_, _, _)
\* [normalize_rumdl(w, md_file) for w in rumdl_raw]
MapRumdl(raw, file, wd) ==
    IF raw = <<>> THEN Ok(<<>>)
    ELSE LET h == normalize_rumdl(Head(raw), file, wd)
         IN  IF h.exc # "" THEN h
             ELSE LET r == MapRumdl(Tail(raw), file, wd)
                  IN  IF r.exc # "" THEN r ELSE Ok(<<h.v>> \o r.v)

RECURSIVE MapMarkdownlint(_, _)
\* [normalize_markdownlint(w) for w in markdownlint_raw]
MapMarkdownlint(raw, wd) ==
    IF raw = <<>> THEN Ok(<<>>)
    ELSE LET h == normalize_markdownlint(Head(raw), wd)
         IN  IF h.exc # "" THEN h
             ELSE LET r == MapMarkdownlint(Tail(raw), wd)
                  IN  IF r.exc # "" THEN r ELSE Ok(<<h.v>> \o r.v)

\* lines 143-145: keep the warnings whose file is the current file
FilterCurrentFile(norm, file, wd) ==
    LET rel == RelativeTo(file, wd)
    IN  IF rel.exc # "" THEN rel
        ELSE LET file_relative == PyStr(StrOf(rel.v))
                 file_absolute == PyStr(StrOf(Absolute(file, wd)))
                 keep == {w \in SeqToSet(norm) : w.file \in {file_relative, file_absolute}}
             IN  Ok(SelectSeqBy(norm, keep))

-----------------------------------------------------------------------------
(* The per-file report. *)

\* the [:3] of lines 177 and 187
ShownLimit == 3

\* lines 180-181: the message of the first warning with this key
MessageOf(k, norm) ==
    LET hits == {i \in 1..Len(norm) : warning_key(norm[i]) = k}
    IN  IF hits = {} THEN PyStr("No message")
        ELSE Get(norm[CHOOSE i \in hits : \A j \in hits : i <= j],
                 "message", PyStr("No message"))

\* list(keys)[:3]: a set is listed in an order of the interpreter's choosing,
\* so any ShownLimit of the keys may be the ones shown
Samples(keys) ==
    LET n == IF Cardinality(keys) < ShownLimit THEN Cardinality(keys) ELSE ShownLimit
    IN  {shown \in SUBSET keys : Cardinality(shown) = n}

\* lines 176-184 (and 186-194): one category of mismatches; the item lines
\* are kept as a set, their order being the interpreter's
CategoryLines(tool, keys, shown, norm) ==
    IF keys = {} THEN <<>>
    ELSE <<[kind |-> "only_in", tool |-> tool, n |-> Cardinality(keys)],
           [kind |-> "items", tool |-> tool,
            items |-> {[line |-> k[2], rule |-> k[3],
                        message |-> MessageOf(k, norm)] : k \in shown}]>>
         \o (IF Cardinality(keys) > ShownLimit
             THEN <<[kind |-> "more", tool |-> tool,
                     n |-> Cardinality(keys) - ShownLimit]>>
             ELSE <<>>)

\* mutant of ExitStatus: the status does not depend on all_passed
ExitStatus_AlwaysZero(passed) == 0

\* lines 203-208: the status main() exits with
ExitStatus(passed) == IF passed THEN 0 ELSE 1

\* an uncaught exception ends the interpreter with status 1
Abort(e) ==
    /\ exc' = e
    /\ exit_status' = PyInt(1)
    /\ pc' = "exited"

-----------------------------------------------------------------------------
(* main() *)

md_file == md_files[idx]

Init ==
    /\ cwd \in CwdChoices
    /\ found \in {1..n : n \in 0..MaxFiles}
    /\ pc = "start"
    /\ md_files = <<>>
    /\ idx = 0
    /\ all_passed = TRUE
    /\ total_common = 0
    /\ total_rumdl_only = 0
    /\ total_markdownlint_only = 0
    /\ rumdl_raw = <<>>
    /\ markdownlint_raw = <<>>
    /\ rumdl_norm = <<>>
    /\ markdownlint_norm = <<>>
    /\ only_in_rumdl = {}
    /\ only_in_markdownlint = {}
    /\ common = {}
    /\ out = <<>>
    /\ exit_status = None
    /\ exc = ""
    /\ rumdl_outcome = "not_run"
    /\ markdownlint_outcome = "not_run"
    /\ md_proc = None
    /\ calls = 0
    /\ reported = 0
    /\ compared = 0
    /\ sum_common = 0
    /\ sum_only_a = 0
    /\ sum_only_b = 0
    /\ mismatched = FALSE
    /\ scenario = FALSE

\* mutant of NoFilesExit: the message is printed and sys.exit(1) is missing
NoFilesExit_FallThrough ==
    /\ out' = <<[kind |-> "no_markdown_files"]>>
    /\ pc' = "summary"
    /\ UNCHANGED exit_status

\* lines 126-127: print("No markdown files found ..."); sys.exit(1)
NoFilesExit ==
    /\ out' = <<[kind |-> "no_markdown_files"]>>
    /\ exit_status' = PyInt(1)
    /\ pc' = "exited"

\* lines 124-132
Start ==
    /\ pc = "start"
    /\ md_files' = SortedFiles(found)
    /\ IF md_files' = <<>>
       THEN /\ NoFilesExit
            /\ UNCHANGED <<idx, all_passed, total_common, total_rumdl_only,
                           total_markdownlint_only>>
       ELSE /\ all_passed' = TRUE
            /\ total_common' = 0
            /\ total_rumdl_only' = 0
            /\ total_markdownlint_only' = 0
            /\ idx' = 1
            /\ pc' = "run_rumdl"
            /\ UNCHANGED <<out, exit_status>>
    /\ UNCHANGED <<cwd, found, rumdl_raw, markdownlint_raw, rumdl_norm,
                   markdownlint_norm, only_in_rumdl, only_in_markdownlint,
                   common, exc, rumdl_outcome, markdownlint_outcome, md_proc,
                   calls, reported, compared, sum_common, sum_only_a, sum_only_b,
                   mismatched, scenario>>

\* lines 135-136
RunRumdl ==
    /\ pc = "run_rumdl"
    /\ \E result \in RumdlResults(MaxWarnings - reported) :
         LET r == run_rumdl(result)
         IN  /\ rumdl_raw' = r.ret
             /\ rumdl_outcome' = r.outcome
             /\ reported' = reported + Len(r.ret)
             /\ out' = <<[kind |-> "header", file |-> StrOf(md_file)]>>
                       \o (IF r.outcome = "ok" THEN <<>>
                           ELSE <<[kind |-> "diagnostic", tool |-> "rumdl",
                                   what |-> r.outcome]>>)
    /\ calls' = calls + 1
    /\ pc' = "run_markdownlint"
    /\ UNCHANGED <<cwd, found, md_files, idx, all_passed, total_common,
                   total_rumdl_only, total_markdownlint_only, markdownlint_raw,
                   rumdl_norm, markdownlint_norm, only_in_rumdl,
                   only_in_markdownlint, common, exit_status, exc,
                   markdownlint_outcome, md_proc, compared, sum_common,
                   sum_only_a, sum_only_b, mismatched, scenario>>

\* line 137
RunMarkdownlint ==
    /\ pc = "run_markdownlint"
    /\ \E result \in MarkdownlintRuns(md_file, MaxWarnings - reported) :
         LET r == run_markdownlint(result)
         IN  /\ markdownlint_raw' = r.ret
             /\ markdownlint_outcome' = r.outcome
             /\ reported' = reported + Len(r.ret)
             /\ out' = out \o (IF r.outcome \in {"ok", "empty"} THEN <<>>
                               ELSE <<[kind |-> "diagnostic",
                                       tool |-> "markdownlint",
                                       what |-> r.outcome]>>)
             /\ scenario' = /\ Len(md_files) = 1
                            /\ rumdl_raw = <<Scenario1Rumdl>>
                            /\ r.ret = <<Scenario1Markdownlint>>
    /\ calls' = calls + 1
    /\ pc' = "normalize"
    /\ UNCHANGED <<cwd, found, md_files, idx, all_passed, total_common,
                   total_rumdl_only, total_markdownlint_only, rumdl_raw,
                   rumdl_norm, markdownlint_norm, only_in_rumdl,
                   only_in_markdownlint, common, exit_status, exc,
                   rumdl_outcome, md_proc, compared, sum_common, sum_only_a,
                   sum_only_b, mismatched>>

\* lines 139-145.  The raw lists are not read after line 140: the model
\* drops them once the file is normalized.
Normalize ==
    /\ pc = "normalize"
    /\ LET rn == MapRumdl(rumdl_raw, md_file, cwd)
           mn == MapMarkdownlint(markdownlint_raw, cwd)
           fn == FilterCurrentFile(mn.v, md_file, cwd)
       IN  IF rn.exc # ""
           THEN /\ Abort(rn.exc)
                /\ UNCHANGED <<rumdl_raw, markdownlint_raw, rumdl_norm,
                               markdownlint_norm>>
           ELSE IF mn.exc # ""
           THEN /\ Abort(mn.exc)
                /\ rumdl_norm' = rn.v
                /\ UNCHANGED <<rumdl_raw, markdownlint_raw, markdownlint_norm>>
           ELSE IF fn.exc # ""
           THEN /\ Abort(fn.exc)
                /\ rumdl_norm' = rn.v
                /\ markdownlint_norm' = mn.v
                /\ UNCHANGED <<rumdl_raw, markdownlint_raw>>
           ELSE /\ rumdl_norm' = rn.v
                /\ markdownlint_norm' = fn.v
                /\ rumdl_raw' = <<>>
                /\ markdownlint_raw' = <<>>
                /\ pc' = "compare"
                /\ UNCHANGED <<exit_status, exc>>
    /\ UNCHANGED <<cwd, found, md_files, idx, all_passed, total_common,
                   total_rumdl_only, total_markdownlint_only, only_in_rumdl,
                   only_in_markdownlint, common, out, rumdl_outcome,
                   markdownlint_outcome, md_proc, calls, reported, compared, sum_common,
                   sum_only_a, sum_only_b, mismatched, scenario>>

\* lines 147-165
Compare ==
    /\ pc = "compare"
    /\ LET r_sorted == sorted(rumdl_norm)
           m_sorted == sorted(markdownlint_norm)
       IN  IF r_sorted.exc # "" \/ m_sorted.exc # ""
           THEN /\ Abort("TypeError")
                /\ UNCHANGED <<only_in_rumdl, only_in_markdownlint, common,
                               compared>>
           ELSE LET r_set == KeySet(r_sorted.v)
                    m_set == KeySet(m_sorted.v)
                IN  /\ only_in_rumdl' = OnlyInRumdl(r_set, m_set)
                    /\ only_in_markdownlint' = OnlyInMarkdownlint(r_set, m_set)
                    /\ common' = Common(r_set, m_set)
                    /\ compared' = compared + 1
                    /\ pc' = "fold"
                    /\ UNCHANGED <<exit_status, exc>>
    /\ UNCHANGED <<cwd, found, md_files, idx, all_passed, total_common,
                   total_rumdl_only, total_markdownlint_only, rumdl_raw,
                   markdownlint_raw, rumdl_norm, markdownlint_norm, out,
                   rumdl_outcome, markdownlint_outcome, md_proc, calls, reported,
                   sum_common, sum_only_a, sum_only_b, mismatched, scenario>>

\* mutant of FoldTotals: = where the code has +=
FoldTotals_Overwrite ==
    /\ pc = "fold"
    /\ total_common' = Cardinality(common)
    /\ total_rumdl_only' = Cardinality(only_in_rumdl)
    /\ total_markdownlint_only' = Cardinality(only_in_markdownlint)
    /\ pc' = "report"
    /\ UNCHANGED <<cwd, found, md_files, idx, all_passed, rumdl_raw,
                   markdownlint_raw, rumdl_norm, markdownlint_norm,
                   only_in_rumdl, only_in_markdownlint, common, out,
                   exit_status, exc, rumdl_outcome, markdownlint_outcome,
                   md_proc, calls, reported, compared, sum_common, sum_only_a,
                   sum_only_b, mismatched, scenario>>

\* lines 167-169
FoldTotals ==
    /\ pc = "fold"
    /\ total_common' = total_common + Cardinality(common)
    /\ total_rumdl_only' = total_rumdl_only + Cardinality(only_in_rumdl)
    /\ total_markdownlint_only' =
           total_markdownlint_only + Cardinality(only_in_markdownlint)
    /\ pc' = "report"
    /\ UNCHANGED <<cwd, found, md_files, idx, all_passed, rumdl_raw,
                   markdownlint_raw, rumdl_norm, markdownlint_norm,
                   only_in_rumdl, only_in_markdownlint, common, out,
                   exit_status, exc, rumdl_outcome, markdownlint_outcome,
                   md_proc, calls, reported, compared, sum_common, sum_only_a,
                   sum_only_b, mismatched, scenario>>

\* line 171: the file passes
FilePasses == only_in_rumdl = {} /\ only_in_markdownlint = {}

\* lines 171-196
ReportFile ==
    /\ pc = "report"
    /\ IF FilePasses
       THEN /\ out' = out \o <<[kind |-> "pass"]>>
            /\ UNCHANGED all_passed
       ELSE /\ \E sa \in Samples(only_in_rumdl), sb \in Samples(only_in_markdownlint) :
                 out' = out \o <<[kind |-> "mismatches"]>>
                        \o CategoryLines("rumdl", only_in_rumdl, sa, rumdl_norm)
                        \o CategoryLines("markdownlint", only_in_markdownlint, sb,
                                         markdownlint_norm)
                        \o <<[kind |-> "common", n |-> Cardinality(common)]>>
            /\ all_passed' = FALSE
    /\ sum_common' = sum_common + Cardinality(common)
    /\ sum_only_a' = sum_only_a + Cardinality(only_in_rumdl)
    /\ sum_only_b' = sum_only_b + Cardinality(only_in_markdownlint)
    /\ mismatched' = (mismatched \/ ~FilePasses)
    /\ pc' = "next_file"
    /\ UNCHANGED <<cwd, found, md_files, idx, total_common, total_rumdl_only,
                   total_markdownlint_only, rumdl_raw, markdownlint_raw,
                   rumdl_norm, markdownlint_norm, only_in_rumdl,
                   only_in_markdownlint, common, exit_status, exc,
                   rumdl_outcome, markdownlint_outcome, md_proc, calls, reported,
                   compared, scenario>>

\* line 134: the for statement takes the next file, or ends the loop.  The
\* loop body rebinds its locals before it reads them; the model clears them.
NextFile ==
    /\ pc = "next_file"
    /\ IF idx < Len(md_files)
       THEN /\ idx' = idx + 1
            /\ pc' = "run_rumdl"
            /\ rumdl_norm' = <<>>
            /\ markdownlint_norm' = <<>>
            /\ only_in_rumdl' = {}
            /\ only_in_markdownlint' = {}
            /\ common' = {}
            /\ out' = <<>>
            /\ rumdl_outcome' = "not_run"
            /\ markdownlint_outcome' = "not_run"
       ELSE /\ pc' = "summary"
            /\ UNCHANGED <<idx, rumdl_norm, markdownlint_norm, only_in_rumdl,
                           only_in_markdownlint, common, out, rumdl_outcome,
                           markdownlint_outcome>>
    /\ UNCHANGED <<cwd, found, md_files, all_passed, total_common,
                   total_rumdl_only, total_markdownlint_only, rumdl_raw,
                   markdownlint_raw, exit_status, exc, md_proc, calls, reported,
                   compared, sum_common, sum_only_a, sum_only_b, mismatched,
                   scenario>>

\* lines 198-201
Summary ==
    /\ pc = "summary"
    /\ out' = out \o <<[kind |-> "summary", common |-> total_common,
                        rumdl_only |-> total_rumdl_only,
                        markdownlint_only |-> total_markdownlint_only]>>
    /\ pc' = "exit"
    /\ UNCHANGED <<cwd, found, md_files, idx, all_passed, total_common,
                   total_rumdl_only, total_markdownlint_only, rumdl_raw,
                   markdownlint_raw, rumdl_norm, markdownlint_norm,
                   only_in_rumdl, only_in_markdownlint, common, exit_status,
                   exc, rumdl_outcome, markdownlint_outcome, md_proc, calls, reported,
                   compared, sum_common, sum_only_a, sum_only_b, mismatched,
                   scenario>>

\* lines 203-208
Exit ==
    /\ pc = "exit"
    /\ out' = out \o <<[kind |-> "verdict", passed |-> all_passed]>>
    /\ exit_status' = PyInt(ExitStatus(all_passed))
    /\ pc' = "exited"
    /\ UNCHANGED <<cwd, found, md_files, idx, all_passed, total_common,
                   total_rumdl_only, total_markdownlint_only, rumdl_raw,
                   markdownlint_raw, rumdl_norm, markdownlint_norm,
                   only_in_rumdl, only_in_markdownlint, common, exc,
                   rumdl_outcome, markdownlint_outcome, md_proc, calls, reported,
                   compared, sum_common, sum_only_a, sum_only_b, mismatched,
                   scenario>>

Next ==
    \/ Start
    \/ RunRumdl
    \/ RunMarkdownlint
    \/ Normalize
    \/ Compare
    \/ FoldTotals
    \/ ReportFile
    \/ NextFile
    \/ Summary
    \/ Exit

Spec == Init /\ [][Next]_vars

-----------------------------------------------------------------------------
(* run_markdownlint on its own, over every result subprocess.run may give. *)

AdapterInit ==
    /\ cwd = ScriptDir
    /\ found = {1}
    /\ pc = "adapter"
    /\ md_files = SortedFiles({1})
    /\ idx = 1
    /\ all_passed = TRUE
    /\ total_common = 0
    /\ total_rumdl_only = 0
    /\ total_markdownlint_only = 0
    /\ rumdl_raw = <<>>
    /\ markdownlint_raw = <<>>
    /\ rumdl_norm = <<>>
    /\ markdownlint_norm = <<>>
    /\ only_in_rumdl = {}
    /\ only_in_markdownlint = {}
    /\ common = {}
    /\ out = <<>>
    /\ exit_status = None
    /\ exc = ""
    /\ rumdl_outcome = "not_run"
    /\ markdownlint_outcome = "not_run"
    /\ md_proc \in MarkdownlintResults(CorpusFile(1), MaxWarnings)
    /\ calls = 0
    /\ reported = 0
    /\ compared = 0
    /\ sum_common = 0
    /\ sum_only_a = 0
    /\ sum_only_b = 0
    /\ mismatched = FALSE
    /\ scenario = FALSE

\* lines 26-42, on the CompletedProcess md_proc
MarkdownlintAdapter ==
    /\ pc = "adapter"
    /\ LET r == run_markdownlint(md_proc)
       IN  /\ markdownlint_raw' = r.ret
           /\ markdownlint_outcome' = r.outcome
    /\ calls' = calls + 1
    /\ pc' = "adapter_done"
    /\ UNCHANGED <<cwd, found, md_files, idx, all_passed, total_common,
                   total_rumdl_only, total_markdownlint_only, rumdl_raw,
                   rumdl_norm, markdownlint_norm, only_in_rumdl,
                   only_in_markdownlint, common, out, exit_status, exc,
                   rumdl_outcome, md_proc, reported, compared, sum_common,
                   sum_only_a, sum_only_b, mismatched, scenario>>

AdapterNext == MarkdownlintAdapter

AdapterSpec == AdapterInit /\ [][AdapterNext]_vars

-----------------------------------------------------------------------------
(* The report of one file and the end of main(), from line 171 on, over     *)
(* every way MaxKeys keys can fall into the two differences and the         *)
(* intersection.                                                            *)

\* the canonical record of the warning at line i of the file, as
\* normalize_rumdl and normalize_markdownlint build it
ReportRecord(i, message) ==
    [file    |-> PyStr(StrOf(RelativeTo(CorpusFile(1), ScriptDir).v)),
     line    |-> PyInt(i),
     column  |-> PyInt(1),
     rule    |-> PyStr("MD013"),
     message |-> PyStr(message),
     fix     |-> None]

RECURSIVE ReportRecords(_, _, _, _)
\* the records of the lines i..MaxKeys that side gives to one of the tools
ReportRecords(side, tools, message, i) ==
    IF i > MaxKeys THEN <<>>
    ELSE (IF side[i] \in tools THEN <<ReportRecord(i, message)>> ELSE <<>>)
         \o ReportRecords(side, tools, message, i + 1)

\* main() at line 171 of its only file: the lists are normalized, the key
\* sets built and the counts added to the totals
ReportInit ==
    \E side \in [1..MaxKeys -> {"rumdl", "markdownlint", "both", "neither"}] :
        LET rn == ReportRecords(side, {"rumdl", "both"}, "line too long", 1)
            mn == ReportRecords(side, {"markdownlint", "both"}, "Line length", 1)
            r_set == KeySet(rn)
            m_set == KeySet(mn)
        IN  /\ cwd = ScriptDir
            /\ found = {1}
            /\ pc = "report"
            /\ md_files = SortedFiles({1})
            /\ idx = 1
            /\ all_passed = TRUE
            /\ total_common = Cardinality(Common(r_set, m_set))
            /\ total_rumdl_only = Cardinality(OnlyInRumdl(r_set, m_set))
            /\ total_markdownlint_only = Cardinality(OnlyInMarkdownlint(r_set, m_set))
            /\ rumdl_raw = <<>>
            /\ markdownlint_raw = <<>>
            /\ rumdl_norm = rn
            /\ markdownlint_norm = mn
            /\ only_in_rumdl = OnlyInRumdl(r_set, m_set)
            /\ only_in_markdownlint = OnlyInMarkdownlint(r_set, m_set)
            /\ common = Common(r_set, m_set)
            /\ out = <<[kind |-> "header", file |-> StrOf(CorpusFile(1))]>>
            /\ exit_status = None
            /\ exc = ""
            /\ rumdl_outcome = "ok"
            /\ markdownlint_outcome = "ok"
            /\ md_proc = None
            /\ calls = 2
            /\ reported = Len(rn) + Len(mn)
            /\ compared = 1
            /\ sum_common = 0
            /\ sum_only_a = 0
            /\ sum_only_b = 0
            /\ mismatched = FALSE
            /\ scenario = FALSE

ReportNext ==
    \/ ReportFile
    \/ NextFile
    \/ Summary
    \/ Exit

ReportSpec == ReportInit /\ [][ReportNext]_vars

-----------------------------------------------------------------------------
(* Properties. *)

\* main() has ended
Exited == pc = "exited"

\* main() ran to its last line: sys.exit at line 205 or 208
ExitedAtEnd == Exited /\ exc = "" /\ found # {}

\* the key sets of the current file are built (lines 160-165 are done)
FileCompared == pc \in {"fold", "report", "next_file", "summary", "exit"} \/ ExitedAtEnd

\* the loop is between two files, or past the last one
BetweenFiles == pc \in {"run_rumdl", "next_file", "summary", "exit"} \/ ExitedAtEnd

\* the (file, line, rule) keys of a list of canonical records
KeysOf(list) == {<<list[i].file, list[i].line, list[i].rule>> : i \in 1..Len(list)}

\* C1: when main() has ended, the exit status is 0 if and only if the corpus
\* was non-empty and every file was compared with both differences empty; in
\* every other case it is 1.
C1_ExitStatus ==
    Exited =>
        /\ exit_status \in {PyInt(0), PyInt(1)}
        /\ exit_status = PyInt(0) <=>
              (found # {} /\ compared = Cardinality(found) /\ ~mismatched)

\* a run over two files that all passed, with warnings in common
C1_Witness ==
    Exited /\ exit_status = PyInt(0) /\ Len(md_files) = 2 /\ sum_common > 0

\* C2: the comparison of one file's two lists uses the key (file, line,
\* rule): only_in_rumdl, only_in_markdownlint and common are the two set
\* differences and the intersection of the key sets, pairwise disjoint,
\* together all the keys, and a key held by several records counts once.
C2_KeyPartition ==
    FileCompared =>
        LET A == KeysOf(rumdl_norm)
            B == KeysOf(markdownlint_norm)
        IN  /\ \A k \in A \cup B :
                 /\ k \in only_in_rumdl <=> (k \in A /\ k \notin B)
                 /\ k \in only_in_markdownlint <=> (k \in B /\ k \notin A)
                 /\ k \in common <=> (k \in A /\ k \in B)
            /\ only_in_rumdl \cup only_in_markdownlint \cup common = A \cup B
            /\ only_in_rumdl \cap only_in_markdownlint = {}
            /\ only_in_rumdl \cap common = {}
            /\ only_in_markdownlint \cap common = {}
            /\ Cardinality(only_in_rumdl) + Cardinality(common) = Cardinality(A)
            /\ Cardinality(only_in_markdownlint) + Cardinality(common) = Cardinality(B)

\* rumdl reported one key twice, and markdownlint reported it too
C2_Witness ==
    /\ pc = "fold"
    /\ Len(rumdl_norm) = 2
    /\ Cardinality(KeysOf(rumdl_norm)) = 1
    /\ Cardinality(common) = 1

\* the totals after the files finished so far
C3_TotalsAreSums ==
    BetweenFiles =>
        /\ total_common = sum_common
        /\ total_rumdl_only = sum_only_a
        /\ total_markdownlint_only = sum_only_b
        /\ all_passed <=> ~mismatched

\* C3: after any prefix of the files, the three totals are the sums of the
\* sizes of common, only_in_rumdl and only_in_markdownlint over the finished
\* files, all_passed is false exactly when one of them had a non-empty
\* difference, and all_passed, once false, stays false.
C3_Accumulator ==
    /\ []C3_TotalsAreSums
    /\ [][~all_passed => ~all_passed']_vars

\* the second file passes after the first one did not
C3_Witness ==
    /\ pc = "next_file"
    /\ idx = 2
    /\ FilePasses
    /\ Cardinality(common) = 1
    /\ ~all_passed
    /\ total_rumdl_only >= 1

\* C4: with no markdown file in the corpus, main() prints the "No markdown
\* files found" message and exits 1; no tool was run, nothing was compared
\* and no summary was printed.
C4_EmptyCorpus ==
    found = {} =>
        /\ pc \in {"start", "exited"}
        /\ calls = 0
        /\ compared = 0
        /\ \A i \in 1..Len(out) : out[i].kind \notin {"summary", "verdict"}
        /\ Exited => /\ exit_status = PyInt(1)
                     /\ out = <<[kind |-> "no_markdown_files"]>>

\* the run over an empty corpus has ended
C4_Witness == Exited /\ found = {}

\* a tool failed on the current file
RumdlFailed == rumdl_outcome \in {"error", "parse_error"}

MarkdownlintFailed == markdownlint_outcome \in {"error", "empty", "parse_error"}

\* C5: a tool failure on a file (bad exit status, empty output, output that
\* is not JSON) does not abort the run: the failing tool's list is empty, the
\* file is still compared (with markdownlint failing, every rumdl key is in
\* only_in_rumdl) and no exception ends main().  Stated for runs started
\* from the repository root.
C5_ToolFailureIsolated ==
    (cwd = ScriptDir /\ (RumdlFailed \/ MarkdownlintFailed)) =>
        /\ exc = ""
        /\ (RumdlFailed /\ pc = "run_markdownlint") => rumdl_raw = <<>>
        /\ (MarkdownlintFailed /\ pc = "normalize") => markdownlint_raw = <<>>
        /\ (MarkdownlintFailed /\ FileCompared) =>
              /\ only_in_rumdl = KeysOf(rumdl_norm)
              /\ common = {}

\* C6: Scenario 1.  One file; rumdl prints {line:5, rule:"MD013", message:
\* "line too long"}, markdownlint prints {lineNumber:5, ruleNames:["MD013"],
\* ruleDescription:"line too long"}: one common key, no difference, exit 0.
\* Stated for runs started from the repository root.
C6_Scenario1 ==
    (scenario /\ cwd = ScriptDir) =>
        /\ exc = ""
        /\ FileCompared => /\ Cardinality(common) = 1
                           /\ only_in_rumdl = {}
                           /\ only_in_markdownlint = {}
        /\ Exited => exit_status = PyInt(0)

\* C7: whatever optional fields the raw warnings lack, normalizing, sorting
\* and comparing them raises nothing, and a missing line is 0 in the
\* canonical record.  Stated for runs started from the repository root.
C7_NormalizeNeverRaises ==
    cwd = ScriptDir =>
        /\ exc \notin {"IndexError", "TypeError"}
        /\ \A i \in 1..Len(rumdl_norm) : rumdl_norm[i].line # None
        /\ \A i \in 1..Len(markdownlint_norm) : markdownlint_norm[i].line # None

\* C8: both normalizers rewrite an absolute path under the cwd relative to
\* it and keep any other path unchanged, without error; so the current
\* file's warnings get one and the same file component from both tools.
C8_SamePathRule ==
    /\ ~(Exited /\ exc = "ValueError" /\ rumdl_raw # <<>>)
    /\ pc = "compare" =>
          \A i \in 1..Len(rumdl_norm), j \in 1..Len(markdownlint_norm) :
              rumdl_norm[i].file = markdownlint_norm[j].file

\* the strict identity of the specification: every field that is compared
strict_key(w) == <<w.file, w.line, w.column, w.rule, w.message>>

StrictKeySet(list) == {strict_key(list[i]) : i \in 1..Len(list)}

\* the records of list with the relaxed key k
WithKey(list, k) == {i \in 1..Len(list) : <<list[i].file, list[i].line, list[i].rule>> = k}

\* C9: a warning both tools report with the same (file, line, rule) and
\* different message text is one common key and in neither difference
\* (relaxed mode, the code); under the strict identity it is one entry only
\* in rumdl's set and one entry only in markdownlint's.
C9_MessageDifference ==
    FileCompared =>
        \A i \in 1..Len(rumdl_norm), j \in 1..Len(markdownlint_norm) :
            LET a == rumdl_norm[i]
                b == markdownlint_norm[j]
                k == <<a.file, a.line, a.rule>>
            IN  (/\ k = <<b.file, b.line, b.rule>>
                 /\ a.message # b.message
                 /\ WithKey(rumdl_norm, k) = {i}
                 /\ WithKey(markdownlint_norm, k) = {j}) =>
                    /\ k \in common
                    /\ k \notin only_in_rumdl \cup only_in_markdownlint
                    /\ {s \in StrictKeySet(rumdl_norm) \ StrictKeySet(markdownlint_norm) :
                          <<s[1], s[2], s[4]>> = k} = {strict_key(a)}
                    /\ {s \in StrictKeySet(markdownlint_norm) \ StrictKeySet(rumdl_norm) :
                          <<s[1], s[2], s[4]>> = k} = {strict_key(b)}

\* both tools report (file, 5, MD013), with different messages
C9_Witness ==
    /\ pc = "fold"
    /\ \E i \in 1..Len(rumdl_norm), j \in 1..Len(markdownlint_norm) :
         /\ rumdl_norm[i].file = markdownlint_norm[j].file
         /\ rumdl_norm[i].line = markdownlint_norm[j].line
         /\ rumdl_norm[i].rule = markdownlint_norm[j].rule
         /\ rumdl_norm[i].message # markdownlint_norm[j].message
         /\ Len(rumdl_norm) = 1
         /\ Len(markdownlint_norm) = 1

\* run_markdownlint has returned
AdapterDone == pc = "adapter_done"

\* a stream holds a JSON array
HoldsArray(ch) == ch.kind = "json"

\* C10 as claimed: with exit status 0 or 1 and a JSON array on stdout or on
\* stderr, run_markdownlint returns the warnings of such an array.
C10_EitherChannel ==
    (/\ AdapterDone
     /\ md_proc.returncode \in {0, 1}
     /\ HoldsArray(md_proc.stderr) \/ HoldsArray(md_proc.stdout)) =>
        markdownlint_raw \in
            {ch.value : ch \in {c \in {md_proc.stderr, md_proc.stdout} : HoldsArray(c)}}

\* C10, amended: with exit status 0 or 1, run_markdownlint reads stderr
\* unless stderr is blank, and stdout only then: it returns stderr's array
\* when stderr holds one, stdout's array when stderr is blank and stdout
\* holds one, and the empty list when stderr holds other text, whatever
\* stdout holds.
C10_StderrUnlessBlank ==
    (AdapterDone /\ md_proc.returncode \in {0, 1}) =>
        /\ HoldsArray(md_proc.stderr) => markdownlint_raw = md_proc.stderr.value
        /\ (md_proc.stderr = Blank /\ HoldsArray(md_proc.stdout)) =>
              markdownlint_raw = md_proc.stdout.value
        /\ md_proc.stderr = Text => markdownlint_raw = <<>>

\* stderr was blank and the array came from stdout
C10_Witness ==
    /\ AdapterDone
    /\ md_proc.returncode = 0
    /\ md_proc.stderr = Blank
    /\ HoldsArray(md_proc.stdout)
    /\ markdownlint_raw # <<>>
    /\ markdownlint_raw = md_proc.stdout.value

\* the current file's report is printed (lines 171-196 are done)
ReportPrinted == pc = "next_file"

IsReportLine(l) == l.kind \notin {"header", "diagnostic"}

\* what was printed for the current file after its header and diagnostics
ReportLines == SelectSeq(out, IsReportLine)

\* the lines of the report about one tool's category
ToolLines(tool) ==
    LET OfTool(l) == "tool" \in DOMAIN l /\ l.tool = tool
    IN  SelectSeq(ReportLines, OfTool)

CategoryOf(tool) == IF tool = "rumdl" THEN only_in_rumdl ELSE only_in_markdownlint

\* the report starts with the pass indicator exactly when both differences
\* are empty, and with the mismatch heading otherwise
ReportIndicator ==
    /\ ReportLines # <<>>
    /\ ReportLines[1].kind = (IF FilePasses THEN "pass" ELSE "mismatches")
    /\ \A i \in 2..Len(ReportLines) : ReportLines[i].kind \notin {"pass", "mismatches"}

\* a category of size n > 0 is reported by its heading, min(n, 3) entries that
\* are keys of the category, and a "...and n - 3 more" line exactly when
\* n > 3; an empty category is not reported
ReportCategory(tool) ==
    LET keys == CategoryOf(tool)
        n == Cardinality(keys)
        lines == ToolLines(tool)
    IN  IF n = 0 THEN lines = <<>>
        ELSE /\ Len(lines) = (IF n > 3 THEN 3 ELSE 2)
             /\ lines[1] = [kind |-> "only_in", tool |-> tool, n |-> n]
             /\ lines[2].kind = "items"
             /\ Cardinality(lines[2].items) = (IF n < 3 THEN n ELSE 3)
             /\ \A e \in lines[2].items :
                    \E k \in keys : k[2] = e.line /\ k[3] = e.rule
             /\ n > 3 => lines[3] = [kind |-> "more", tool |-> tool, n |-> n - 3]

\* the last line of the report is the file's common-count
ReportCommonCount ==
    /\ ReportLines # <<>>
    /\ ReportLines[Len(ReportLines)] = [kind |-> "common", n |-> Cardinality(common)]

\* C11: a file's report is the pass indicator exactly when only_in_rumdl and
\* only_in_markdownlint are both empty; otherwise each non-empty category of
\* size n is listed with min(n, 3) of its keys, none twice, and a "...and K
\* more" line with K = n - 3 exactly when n > 3; either way the report is
\* followed by the file's common-count.
C11_FileReport ==
    ReportPrinted =>
        /\ ReportIndicator
        /\ ReportCategory("rumdl")
        /\ ReportCategory("markdownlint")
        /\ ReportCommonCount

\* the part of C11 about a file that does not pass
MismatchReport ==
    (ReportPrinted /\ ~FilePasses) =>
        /\ ReportIndicator
        /\ ReportCategory("rumdl")
        /\ ReportCategory("markdownlint")
        /\ ReportCommonCount

\* a report with a truncated category
TruncatedReport == ReportPrinted /\ Cardinality(only_in_rumdl) > 3

\* the phase main() is about to run at position p of the loop body
PhaseAt(p) ==
    CASE p \in {"run_rumdl", "run_markdownlint"} -> "RUN_TOOLS"
      [] p = "normalize" -> "NORMALIZE"
      [] p = "compare" -> "COMPARE"
      [] p = "report" -> "REPORT_FILE"
      [] p = "fold" -> "FOLD_INTO_ACCUMULATOR"

InFile(p) == p \in {"run_rumdl", "run_markdownlint", "normalize", "compare", "fold", "report"}

\* the order of the phases of one file, as specified and as lines 135-196 run them
OrderSpecified ==
    <<"RUN_TOOLS", "NORMALIZE", "COMPARE", "REPORT_FILE", "FOLD_INTO_ACCUMULATOR">>

OrderCoded ==
    <<"RUN_TOOLS", "NORMALIZE", "COMPARE", "FOLD_INTO_ACCUMULATOR", "REPORT_FILE">>

RankIn(order, phase) == CHOOSE i \in 1..Len(order) : order[i] = phase

\* a step of main() keeps to the order: within a file the phase stays or
\* moves to the next one, a file is left after the last phase and entered at
\* the first, and the files are taken one after the other
StepInOrder(order) ==
    /\ (InFile(pc) /\ InFile(pc')) =>
          /\ idx' = idx
          /\ RankIn(order, PhaseAt(pc')) - RankIn(order, PhaseAt(pc)) \in {0, 1}
    /\ (InFile(pc) /\ pc' = "next_file") =>
          /\ idx' = idx
          /\ RankIn(order, PhaseAt(pc)) = Len(order)
    /\ idx' # idx =>
          /\ idx' = idx + 1
          /\ pc' = "run_rumdl"
          /\ pc \in {"start", "next_file"}
    /\ pc' \in {"summary", "exit"} => pc \in {"next_file", "summary"} /\ idx' = idx

\* the current file's report is in the output
FileReported == \E i \in 1..Len(out) : out[i].kind \in {"pass", "mismatches"}

\* the run totals change only once the file's report is printed
FoldAfterReport ==
    <<total_common, total_rumdl_only, total_markdownlint_only>>' #
        <<total_common, total_rumdl_only, total_markdownlint_only>> => FileReported

\* the index of a corpus file by its path; f1.md < f2.md < ... as strings
FileIndex(f) == CHOOSE i \in 0..Len(md_files) + 1 : CorpusFile(i) = f

\* md_files is every file found, once, ascending by path; the files before
\* md_file are done; the summary and the exit come after the last file, its
\* counts folded; a run that no exception ends has done every file
FilesInOrder ==
    /\ pc # "start" =>
          /\ Len(md_files) = Cardinality(found)
          /\ {FileIndex(md_files[i]) : i \in 1..Len(md_files)} = found
          /\ \A i, j \in 1..Len(md_files) :
                i < j => FileIndex(md_files[i]) < FileIndex(md_files[j])
    /\ InFile(pc) => compared = (IF pc \in {"fold", "report"} THEN idx ELSE idx - 1)
    /\ InFile(pc) => calls = (CASE pc = "run_rumdl" -> 2 * idx - 2
                                [] pc = "run_markdownlint" -> 2 * idx - 1
                                [] OTHER -> 2 * idx)
    /\ (pc \in {"summary", "exit"} \/ ExitedAtEnd) =>
          /\ idx = Len(md_files)
          /\ compared = Len(md_files)
          /\ calls = 2 * Len(md_files)
          /\ total_common = sum_common
          /\ total_rumdl_only = sum_only_a
          /\ total_markdownlint_only = sum_only_b

\* C12: the files are processed one at a time in sorted path order, each
\* exactly once; each file goes through RUN_TOOLS, NORMALIZE, COMPARE,
\* REPORT_FILE, FOLD_INTO_ACCUMULATOR in this order, its counts added to the
\* totals only after its report is printed; REPORT_SUMMARY and EXIT come only
\* after the last file is folded; no phase is run again.  "Each exactly
\* once" is stated for the runs that no exception ends.
C12_PhaseOrder ==
    /\ []FilesInOrder
    /\ [][StepInOrder(OrderSpecified) /\ FoldAfterReport]_vars

\* the same with the phases in the order of the code
PhaseOrderAsCoded ==
    /\ []FilesInOrder
    /\ [][StepInOrder(OrderCoded)]_vars

====
